---- MODULE Spec2Model ----
(***************************************************************************)
(* Model of the network tables of table_network.py (validate_network,      *)
(* create_network, parse_inp_file) and of the Streamlit script             *)
(* stream_app.py that drives them.                                         *)
(*                                                                         *)
(* A DataFrame is a sequence of rows, a row is a record keyed by the       *)
(* column names.  A missing cell (pandas NaN) is the value NaN.            *)
(***************************************************************************)
EXTENDS Integers, Sequences, FiniteSets, TLC

\* ------------------------------------------------------------- bounds
MaxNodes == 2
MaxPipes == 2
MaxDemands == 1

\* --------------------------------------------------------- input data
NaN == "NaN"

\* A value that may be absent: None, or Some(v).
None == << >>
Some(v) == <<v>>

Ids == {"A", "B"}
PipeIds == {"P1", "P2"}
Types == {"node", "tank"}

\* The columns validation never reads: a node's position and elevation
\* follow its id, every pipe has the same dimensions, every demand is 1.
SampleX == [i \in Ids |-> IF i = "A" THEN 0 ELSE 3]
SampleY == [i \in Ids |-> IF i = "A" THEN 2 ELSE 0]
SampleElevation == [i \in Ids |-> IF i = "A" THEN 10 ELSE 5]
SamplePipe == [length |-> 100, diameter |-> 200, roughness |-> 100]

NodeRow(t, i) ==
    [type |-> t, id |-> i, x |-> SampleX[i], y |-> SampleY[i],
     elevation |-> SampleElevation[i]]

PipeRow(p, f, t) ==
    [id |-> p, from |-> f, to |-> t, length |-> SamplePipe.length,
     diameter |-> SamplePipe.diameter, roughness |-> SamplePipe.roughness]

DemandRow(n) == [node_id |-> n, demand |-> 1]

NodeRows == { NodeRow(t, i) : t \in Types, i \in Ids }

PipeRows == { PipeRow(p, f, t) : p \in PipeIds, f \in Ids, t \in Ids }

DemandRows == { DemandRow(n) : n \in Ids \cup {NaN} }

\* The uploads of the interactive session: node A, a second node or tank
\* B, one pipe from A, one demand row.
AppTables ==
    { [nodes |-> <<NodeRow("node", "A"), NodeRow(t, "B")>>,
       pipes |-> <<PipeRow("P1", "A", e)>>,
       demands |-> <<DemandRow(n)>>] :
         t \in Types, e \in Ids, n \in {"B", NaN} }

SeqsUpTo(S, n) == UNION { [1..k -> S] : k \in 0..n }

\* ---------------------------------------------------- pandas helpers
Column(df, c) == [i \in 1..Len(df) |-> df[i][c]]

Range(s) == { s[i] : i \in 1..Len(s) }

\* Variant for mutation testing: missing cells are kept.
DropnaIdentity(s) == s

\* Series.dropna()
Dropna(s) == SelectSeq(s, LAMBDA v : v # NaN)

\* Series.duplicated(): keep='first', every occurrence after the first
Duplicated(s) == [i \in 1..Len(s) |-> \E j \in 1..(i - 1) : s[j] = s[i]]

\* series[mask]
BoolSelect(s, mask) ==
    LET F[i \in 0..Len(s)] ==
          IF i = 0 THEN << >>
          ELSE IF mask[i] THEN Append(F[i - 1], s[i]) ELSE F[i - 1]
    IN F[Len(s)]

\* Series.unique(): first occurrences, in order
Unique(s) == BoolSelect(s, [i \in 1..Len(s) |-> ~Duplicated(s)[i]])

\* ------------------------------------------------- validate_network
Checked(errs, sugs) == [errors |-> errs, suggestions |-> sugs]

Error(kind, pipe, node, ids) ==
    [kind |-> kind, pipe |-> pipe, node |-> node, ids |-> ids]

Suggestion(kind, node) == [kind |-> kind, node |-> node]

\* Variant for mutation testing: duplicated(keep=False) and no unique().
DuplicateNodesCheckKeepAll(nodes_df) ==
    LET ids == Column(nodes_df, "id")
        duplicate_nodes ==
            BoolSelect(ids, [i \in 1..Len(ids) |->
                               \E j \in 1..Len(ids) : j # i /\ ids[j] = ids[i]])
    IN IF duplicate_nodes # << >>
       THEN Checked(<<Error("duplicate_nodes", "", "", duplicate_nodes)>>,
                    <<Suggestion("rename_nodes", "")>>)
       ELSE Checked(<< >>, << >>)

DuplicateNodesCheck(nodes_df) ==
    LET ids == Column(nodes_df, "id")
        duplicate_nodes == BoolSelect(ids, Duplicated(ids))
    IN IF duplicate_nodes # << >>
       THEN Checked(<<Error("duplicate_nodes", "", "", Unique(duplicate_nodes))>>,
                    <<Suggestion("rename_nodes", "")>>)
       ELSE Checked(<< >>, << >>)

DuplicatePipesCheck(pipes_df) ==
    LET ids == Column(pipes_df, "id")
        duplicate_pipes == BoolSelect(ids, Duplicated(ids))
    IN IF duplicate_pipes # << >>
       THEN Checked(<<Error("duplicate_pipes", "", "", Unique(duplicate_pipes))>>,
                    <<Suggestion("unique_pipes", "")>>)
       ELSE Checked(<< >>, << >>)

\* Variant for mutation testing: only 'from' is looked up.
PipeRowCheckFromOnly(row, node_ids) ==
    LET fromBad == row["from"] \notin Range(node_ids)
    IN Checked(
         IF fromBad THEN <<Error("pipe_from", row["id"], row["from"], << >>)>>
                    ELSE << >>,
         IF fromBad THEN <<Suggestion("add_node", row["from"])>> ELSE << >>)

PipeRowCheck(row, node_ids) ==
    LET fromBad == row["from"] \notin Range(node_ids)
        toBad == row["to"] \notin Range(node_ids)
    IN Checked(
         (IF fromBad THEN <<Error("pipe_from", row["id"], row["from"], << >>)>>
                     ELSE << >>)
         \o (IF toBad THEN <<Error("pipe_to", row["id"], row["to"], << >>)>>
                      ELSE << >>),
         (IF fromBad THEN <<Suggestion("add_node", row["from"])>> ELSE << >>)
         \o (IF toBad THEN <<Suggestion("add_node", row["to"])>> ELSE << >>))

PipeReferenceCheck(pipes_df, node_ids) ==
    LET F[i \in 0..Len(pipes_df)] ==
          IF i = 0 THEN Checked(<< >>, << >>)
          ELSE LET prev == F[i - 1]
                   c == PipeRowCheck(pipes_df[i], node_ids)
               IN Checked(prev.errors \o c.errors,
                          prev.suggestions \o c.suggestions)
    IN F[Len(pipes_df)]

DemandReferenceCheck(demand_ids, node_ids) ==
    LET F[i \in 0..Len(demand_ids)] ==
          IF i = 0 THEN Checked(<< >>, << >>)
          ELSE LET prev == F[i - 1]
               IN IF demand_ids[i] \notin Range(node_ids)
                  THEN Checked(
                         Append(prev.errors,
                                Error("demand_node", "", demand_ids[i], << >>)),
                         Append(prev.suggestions,
                                Suggestion("check_demand", demand_ids[i])))
                  ELSE prev
    IN F[Len(demand_ids)]

\* Variant for mutation testing: values[-1] for values[0].
LastType(nodes_df, n) ==
    LET i == CHOOSE k \in 1..Len(nodes_df) :
               /\ nodes_df[k]["id"] = n
               /\ \A j \in (k + 1)..Len(nodes_df) : nodes_df[j]["id"] # n
    IN nodes_df[i]["type"]

\* nodes_df[nodes_df['id'] == n]['type'].values[0]
FirstType(nodes_df, n) ==
    LET i == CHOOSE k \in 1..Len(nodes_df) :
               /\ nodes_df[k]["id"] = n
               /\ \A j \in 1..(k - 1) : nodes_df[j]["id"] # n
    IN nodes_df[i]["type"]

Connected(pipes_df) ==
    Range(Column(pipes_df, "from")) \cup Range(Column(pipes_df, "to"))

\* Variant for mutation testing: tanks are not exempt.
IsolatedNoExemption(nodes_df, pipes_df, node_ids) ==
    LET connected == Connected(pipes_df)
    IN SelectSeq(node_ids, LAMBDA n : n \notin connected)

Isolated(nodes_df, pipes_df, node_ids) ==
    LET connected == Connected(pipes_df)
    IN SelectSeq(node_ids,
                 LAMBDA n : /\ n \notin connected
                            /\ FirstType(nodes_df, n) # "tank")

\* Variant for mutation testing: the suggestion is not appended.
IsolatedCheckNoSuggestion(nodes_df, pipes_df, node_ids) ==
    LET isolated == Isolated(nodes_df, pipes_df, node_ids)
    IN IF isolated # << >>
       THEN Checked(<<Error("isolated", "", "", isolated)>>, << >>)
       ELSE Checked(<< >>, << >>)

IsolatedCheck(nodes_df, pipes_df, node_ids) ==
    LET isolated == Isolated(nodes_df, pipes_df, node_ids)
    IN IF isolated # << >>
       THEN Checked(<<Error("isolated", "", "", isolated)>>,
                    <<Suggestion("connect_isolated", "")>>)
       ELSE Checked(<< >>, << >>)

validate_network(nodes_df, pipes_df, demands_df) ==
    LET node_ids == Dropna(Column(nodes_df, "id"))
        demand_ids == Dropna(Column(demands_df, "node_id"))
        c1 == DuplicateNodesCheck(nodes_df)
        c2 == DuplicatePipesCheck(pipes_df)
        c3 == PipeReferenceCheck(pipes_df, node_ids)
        c4 == DemandReferenceCheck(demand_ids, node_ids)
        c5 == IsolatedCheck(nodes_df, pipes_df, node_ids)
    IN Checked(
         c1.errors \o c2.errors \o c3.errors \o c4.errors \o c5.errors,
         c1.suggestions \o c2.suggestions \o c3.suggestions
            \o c4.suggestions \o c5.suggestions)

\* --------------------------------------------------- create_network
\* The Network object is the log of the calls made on it.
NodeCall(row) ==
    [op |-> IF row["type"] = "tank" THEN "addTank" ELSE "addNode",
     id |-> row["id"], x |-> row["x"], y |-> row["y"],
     elevation |-> row["elevation"]]

PipeCall(row) ==
    [op |-> "addPipe", id |-> row["id"], from |-> row["from"], to |-> row["to"],
     length |-> row["length"], diameter |-> row["diameter"],
     roughness |-> row["roughness"]]

DemandCall(row) ==
    [op |-> "addDemand", node_id |-> row["node_id"], demand |-> row["demand"],
     pattern |-> "BASE"]

NodeCalls(nodes_df) == [i \in 1..Len(nodes_df) |-> NodeCall(nodes_df[i])]

PipeCalls(pipes_df) == [i \in 1..Len(pipes_df) |-> PipeCall(pipes_df[i])]

\* if pd.notna(row['node_id']): net.addDemand(...)
DemandCalls(demands_df) ==
    LET kept == SelectSeq(demands_df, LAMBDA row : row["node_id"] # NaN)
    IN [i \in 1..Len(kept) |-> DemandCall(kept[i])]

\* Variant for mutation testing: pipes are added before nodes.
create_network_pipes_first(nodes_df, pipes_df, demands_df) ==
    PipeCalls(pipes_df) \o NodeCalls(nodes_df) \o DemandCalls(demands_df)

create_network(nodes_df, pipes_df, demands_df) ==
    NodeCalls(nodes_df) \o PipeCalls(pipes_df) \o DemandCalls(demands_df)

\* ------------------------------------- network file and its parsing
\* net.writeInputFile(path): the file stores what was registered.
writeInputFile(net) == net

RegisteredNodes(file) ==
    SelectSeq(file, LAMBDA c : c["op"] \in {"addNode", "addTank"})

RegisteredPipes(file) == SelectSeq(file, LAMBDA c : c["op"] = "addPipe")

RegisteredDemands(file) == SelectSeq(file, LAMBDA c : c["op"] = "addDemand")

\* base demand of a junction: its first demand entry, 0 without one
BaseDemand(file, id) ==
    LET d == SelectSeq(RegisteredDemands(file), LAMBDA c : c["node_id"] = id)
    IN IF d = << >> THEN 0 ELSE d[1]["demand"]

\* EPANetSimulation(path).network
SimNodes(file) ==
    LET r == RegisteredNodes(file)
    IN [i \in 1..Len(r) |->
          [node_type |-> IF r[i]["op"] = "addTank" THEN "Tank" ELSE "Junction",
           id |-> r[i]["id"], elevation |-> r[i]["elevation"],
           base_demand |-> BaseDemand(file, r[i]["id"])]]

SimLinks(file) ==
    LET r == RegisteredPipes(file)
    IN [i \in 1..Len(r) |->
          [link_type |-> "Pipe", id |-> r[i]["id"],
           start_node |-> r[i]["from"], end_node |-> r[i]["to"],
           length |-> r[i]["length"], diameter |-> r[i]["diameter"],
           roughness |-> r[i]["roughness"]]]

SimJunctions(file) ==
    SelectSeq(SimNodes(file), LAMBDA n : n["node_type"] = "Junction")

EPANetSimulation(file) ==
    [nodes |-> SimNodes(file), links |-> SimLinks(file),
     junctions |-> SimJunctions(file)]

\* --------------------------------------------------- parse_inp_file
\* Variant for mutation testing: the type is compared with 'tank'.
ParsedNodeLowerCase(node) ==
    [type |-> IF node["node_type"] = "tank" THEN "tank" ELSE "node",
     id |-> node["id"], x |-> 0, y |-> 0, elevation |-> node["elevation"]]

ParsedNode(node) ==
    [type |-> IF node["node_type"] = "Tank" THEN "tank" ELSE "node",
     id |-> node["id"], x |-> 0, y |-> 0, elevation |-> node["elevation"]]

ParsedPipe(link) ==
    [id |-> link["id"], from |-> link["start_node"], to |-> link["end_node"],
     length |-> link["length"], diameter |-> link["diameter"],
     roughness |-> link["roughness"]]

ParsedDemand(j) == [node_id |-> j["id"], demand |-> j["base_demand"]]

parse_inp_file(sim) ==
    LET links == SelectSeq(sim.links, LAMBDA l : l["link_type"] = "Pipe")
    IN [nodes |-> [i \in 1..Len(sim.nodes) |-> ParsedNode(sim.nodes[i])],
        pipes |-> [i \in 1..Len(links) |-> ParsedPipe(links[i])],
        demands |-> [i \in 1..Len(sim.junctions) |->
                       ParsedDemand(sim.junctions[i])]]

\* ------------------------------------------------------------ state
VARIABLES
    nodes,          \* the loaded node table
    pipes,          \* the loaded pipe table
    demands,        \* the loaded demand table
    errors,         \* validate_network's first result
    suggestions,    \* validate_network's second result
    net,            \* Some(the Network create_network built), or None
    generated,      \* Some(generated_network.inp on disk), or None
    tmp_files,      \* the temporary .inp files on disk
    parsed,         \* Some(the tables parse_inp_file returned), or None
    solver_input,   \* Some(the file the solver last read), or None
    pc              \* the step the script last completed

vars == <<nodes, pipes, demands, errors, suggestions, net, generated,
          tmp_files, parsed, solver_input, pc>>

Init ==
    /\ nodes \in SeqsUpTo(NodeRows, MaxNodes)
    /\ pipes \in SeqsUpTo(PipeRows, MaxPipes)
    /\ demands \in SeqsUpTo(DemandRows, MaxDemands)
    /\ errors = << >> /\ suggestions = << >>
    /\ net = None
    /\ generated = None
    /\ tmp_files = {}
    /\ parsed = None
    /\ solver_input = None
    /\ pc = "start"

\* The body of stream_app.py below the data loading, on tables n, p, d:
\* show, validate and, without errors, draw and assemble.
Show(n, p, d) ==
    \E v \in {validate_network(n, p, d)} :
       /\ nodes' = n /\ pipes' = p /\ demands' = d
       /\ errors' = v.errors
       /\ suggestions' = v.suggestions
       /\ net' = IF v.errors = << >> THEN Some(create_network(n, p, d)) ELSE None

\* The script's first run on the loaded tables; no button is pressed.
ShowData ==
    /\ pc = "start"
    /\ Show(nodes, pipes, demands)
    /\ pc' = "shown"
    /\ UNCHANGED <<generated, tmp_files, parsed, solver_input>>

\* "Export INP File" pressed: the script runs again on the same tables.
ExportInp ==
    /\ pc = "shown"
    /\ errors = << >>
    /\ Show(nodes, pipes, demands)
    /\ generated' = Some(writeInputFile(net'[1]))
    /\ pc' = "exported"
    /\ UNCHANGED <<tmp_files, parsed, solver_input>>

NewTmp == Cardinality(tmp_files) + 1

\* parse_inp_file on the exported file: it writes its temporary copy, has
\* the library read it and returns the three tables.
ParseInpFile ==
    /\ pc = "exported"
    /\ tmp_files' = tmp_files \cup {NewTmp}
    /\ parsed' = Some(parse_inp_file(EPANetSimulation(generated[1])))
    /\ pc' = "parsed"
    /\ UNCHANGED <<nodes, pipes, demands, errors, suggestions, net, generated,
                   solver_input>>

\* parse_inp_file on a file the solver library rejects: EPANetSimulation
\* raises inside the with block, after the temporary copy was written.
ParseInpFileRejected ==
    /\ pc = "exported"
    /\ tmp_files' = tmp_files \cup {NewTmp}
    /\ pc' = "parse_failed"
    /\ UNCHANGED <<nodes, pipes, demands, errors, suggestions, net, generated,
                   parsed, solver_input>>

Next ==
    \/ ShowData
    \/ ExportInp
    \/ ParseInpFile
    \/ ParseInpFileRejected

Spec == Init /\ [][Next]_vars

\* ------------------------------------------- the interactive session
\* Every user action runs stream_app.py from the top; generated_network.inp
\* stays on disk from one run to the next.
InitApp ==
    /\ nodes = << >> /\ pipes = << >> /\ demands = << >>
    /\ errors = << >> /\ suggestions = << >>
    /\ net = None
    /\ generated = None
    /\ tmp_files = {}
    /\ parsed = None
    /\ solver_input = None
    /\ pc = "start"

ButtonsShown == pc # "start" /\ errors = << >>

\* A data source is selected or uploaded; no button is pressed.
SelectData ==
    /\ \E t \in AppTables : Show(t.nodes, t.pipes, t.demands)
    /\ pc' = "shown"
    /\ UNCHANGED <<generated, tmp_files, parsed, solver_input>>

\* "Export INP File" pressed.
ClickExport ==
    /\ ButtonsShown
    /\ Show(nodes, pipes, demands)
    /\ generated' = Some(writeInputFile(net'[1]))
    /\ pc' = "exported"
    /\ UNCHANGED <<tmp_files, parsed, solver_input>>

\* "Run Simulation" pressed: the solver reads generated_network.inp as it
\* is on disk; without the file it raises.  (The result views and the
\* result CSV files that follow touch nothing modelled here.)
ClickRun ==
    /\ ButtonsShown
    /\ Show(nodes, pipes, demands)
    /\ solver_input' = Some(generated)
    /\ pc' = IF generated = None THEN "run_failed" ELSE "simulated"
    /\ UNCHANGED <<generated, tmp_files, parsed>>

NextApp ==
    \/ SelectData
    \/ ClickExport
    \/ ClickRun

SpecApp == InitApp /\ [][NextApp]_vars

\* ------------------------------------------------------------ claims
Validated == pc # "start"

NodeIdSet == { nodes[i]["id"] : i \in 1..Len(nodes) }

PipeEndpoints ==
    { pipes[i]["from"] : i \in 1..Len(pipes) }
      \cup { pipes[i]["to"] : i \in 1..Len(pipes) }

Occurrences(df, c, v) == Cardinality({ i \in 1..Len(df) : df[i][c] = v })

HasDuplicate(df, c) == \E i \in 1..Len(df) : Occurrences(df, c, df[i][c]) > 1

DanglingPipe(i) ==
    pipes[i]["from"] \notin NodeIdSet \/ pipes[i]["to"] \notin NodeIdSet

DanglingDemand(i) ==
    demands[i]["node_id"] # NaN /\ demands[i]["node_id"] \notin NodeIdSet

ErrorsOfKind(k) == SelectSeq(errors, LAMBDA e : e["kind"] = k)

\* The ids named by the isolated-nodes error.
NamedIsolated ==
    UNION { Range(errors[i]["ids"]) :
              i \in { j \in 1..Len(errors) : errors[j]["kind"] = "isolated" } }

WellFormedInput ==
    /\ ~HasDuplicate(nodes, "id")
    /\ ~HasDuplicate(pipes, "id")
    /\ \A i \in 1..Len(pipes) : ~DanglingPipe(i)
    /\ \A i \in 1..Len(demands) : ~DanglingDemand(i)
    /\ \A i \in 1..Len(nodes) :
         nodes[i]["type"] # "tank" => nodes[i]["id"] \in PipeEndpoints

\* C1: tables without duplicate node or pipe ids, without dangling pipe or
\* demand references and with every non-tank node on some pipe validate
\* with an empty errors list and an empty suggestions list.
C1_WellFormedInputHasNoErrors ==
    (Validated /\ WellFormedInput) => (errors = << >> /\ suggestions = << >>)

C1_Witness ==
    /\ pc = "shown"
    /\ WellFormedInput
    /\ Len(nodes) = 2
    /\ Len(pipes) > 0
    /\ \E i \in 1..Len(demands) : demands[i]["node_id"] # NaN
    /\ \E i \in 1..Len(nodes) :
         nodes[i]["type"] = "tank" /\ nodes[i]["id"] \notin PipeEndpoints
    /\ errors = << >>

\* C2 as stated: every node row of type 'node' whose id is on no pipe is
\* named in the isolated-nodes error and every such row of type 'tank' is
\* not, also when the id occurs in rows of both types.
C2_EveryRowByItsOwnType ==
    Validated =>
      \A i \in 1..Len(nodes) :
        nodes[i]["id"] \notin PipeEndpoints =>
          /\ nodes[i]["type"] = "node" => nodes[i]["id"] \in NamedIsolated
          /\ nodes[i]["type"] = "tank" => nodes[i]["id"] \notin NamedIsolated

FirstRowOf(id) == CHOOSE k \in 1..Len(nodes) :
                     /\ nodes[k]["id"] = id
                     /\ \A j \in 1..Len(nodes) : nodes[j]["id"] = id => k <= j

\* C2 amended: an id on no pipe is named in the isolated-nodes error exactly
\* when the first node row with that id is not a tank; a row whose id occurs
\* once is therefore named when it is a 'node' and not named when it is a
\* 'tank'.
C2_FirstRowDecidesIsolation ==
    Validated =>
      \A i \in 1..Len(nodes) :
        nodes[i]["id"] \notin PipeEndpoints =>
          /\ nodes[i]["id"] \in NamedIsolated
               <=> nodes[FirstRowOf(nodes[i]["id"])]["type"] # "tank"
          /\ Occurrences(nodes, "id", nodes[i]["id"]) = 1 =>
               (nodes[i]["id"] \in NamedIsolated <=> nodes[i]["type"] = "node")

C2_Witness ==
    /\ Validated
    /\ \E i, j \in 1..Len(nodes) :
         /\ i < j
         /\ nodes[i]["id"] = nodes[j]["id"]
         /\ nodes[i]["type"] = "node" /\ nodes[j]["type"] = "tank"
         /\ nodes[i]["id"] \notin PipeEndpoints
         /\ nodes[i]["id"] \in NamedIsolated
    /\ Len(pipes) > 0

PipeErrorCount(k, p, n) ==
    Len(SelectSeq(errors,
                  LAMBDA e : e["kind"] = k /\ e["pipe"] = p /\ e["node"] = n))

PipeRowCount(c, p, n) ==
    Cardinality({ i \in 1..Len(pipes) :
                    pipes[i]["id"] = p /\ pipes[i][c] = n })

\* C4: each pipe row's from, and each pipe row's to, that is no node id has
\* one error of its own naming the pipe id and the missing node id, also
\* beside duplicate-id errors; an endpoint that is a node id has none.
C4_OneErrorPerMissingEndpoint ==
    Validated =>
      \A p \in PipeIds, n \in Ids :
        /\ PipeErrorCount("pipe_from", p, n)
             = IF n \in NodeIdSet THEN 0 ELSE PipeRowCount("from", p, n)
        /\ PipeErrorCount("pipe_to", p, n)
             = IF n \in NodeIdSet THEN 0 ELSE PipeRowCount("to", p, n)

C4_Witness ==
    /\ Validated
    /\ HasDuplicate(nodes, "id")
    /\ HasDuplicate(pipes, "id")
    /\ \E i \in 1..Len(pipes) :
         /\ pipes[i]["from"] \in NodeIdSet
         /\ pipes[i]["to"] \notin NodeIdSet
         /\ PipeErrorCount("pipe_to", pipes[i]["id"], pipes[i]["to"]) > 0

DemandsAttached ==
    LET calls == SelectSeq(net[1], LAMBDA c : c["op"] = "addDemand")
    IN [i \in 1..Len(calls) |-> <<calls[i]["node_id"], calls[i]["demand"]>>]

DemandsGiven ==
    LET rows == SelectSeq(demands, LAMBDA r : r["node_id"] # NaN)
    IN [i \in 1..Len(rows) |-> <<rows[i]["node_id"], rows[i]["demand"]>>]

\* C5: a demand row without node_id produces no validation error and no
\* addDemand call; the addDemand calls are the rows with a node_id, each on
\* its own node.
C5_MissingDemandNodeSkipped ==
    Validated =>
      /\ \A i \in 1..Len(errors) : errors[i]["node"] # NaN
      /\ Len(ErrorsOfKind("demand_node"))
           = Cardinality({ i \in 1..Len(demands) : DanglingDemand(i) })
      /\ net # None => DemandsAttached = DemandsGiven

C5_Witness ==
    /\ pc = "shown"
    /\ \E i \in 1..Len(demands) : demands[i]["node_id"] = NaN
    /\ Len(nodes) > 0
    /\ net # None
    /\ DemandsAttached = << >>

\* C6: create_network runs only on tables validate_network found no error
\* in, and the solver only ever reads the file written from the network
\* assembled from the tables now loaded: never a missing file, never the
\* file of an earlier export of other tables.
C6_SolverReadsCurrentExport ==
    /\ net # None => errors = << >>
    /\ pc \in {"simulated", "run_failed"} =>
         /\ net # None
         /\ solver_input = Some(Some(writeInputFile(net[1])))

\* C7: once parse_inp_file has returned or raised, the temporary .inp file
\* it wrote is gone.
C7_TemporaryFileRemoved ==
    pc \in {"parsed", "parse_failed"} => tmp_files = {}

JunctionIds ==
    LET rows == SelectSeq(nodes, LAMBDA r : r["type"] # "tank")
    IN [i \in 1..Len(rows) |-> rows[i]["id"]]

SuggestionFor(e) ==
    CASE e["kind"] = "duplicate_nodes" -> Suggestion("rename_nodes", "")
      [] e["kind"] = "duplicate_pipes" -> Suggestion("unique_pipes", "")
      [] e["kind"] \in {"pipe_from", "pipe_to"} -> Suggestion("add_node", e["node"])
      [] e["kind"] = "demand_node" -> Suggestion("check_demand", e["node"])
      [] e["kind"] = "isolated" -> Suggestion("connect_isolated", "")

CheckRank(e) ==
    CASE e["kind"] = "duplicate_nodes" -> 1
      [] e["kind"] = "duplicate_pipes" -> 2
      [] e["kind"] \in {"pipe_from", "pipe_to"} -> 3
      [] e["kind"] = "demand_node" -> 4
      [] e["kind"] = "isolated" -> 5

\* The missing endpoints in pipe row order, from before to.
MissingEndpoints ==
    LET F[i \in 0..Len(pipes)] ==
          IF i = 0 THEN << >>
          ELSE F[i - 1]
               \o (IF pipes[i]["from"] \notin NodeIdSet
                   THEN <<<<"pipe_from", pipes[i]["id"], pipes[i]["from"]>>>>
                   ELSE << >>)
               \o (IF pipes[i]["to"] \notin NodeIdSet
                   THEN <<<<"pipe_to", pipes[i]["id"], pipes[i]["to"]>>>>
                   ELSE << >>)
    IN F[Len(pipes)]

PipeErrorsReported ==
    LET e == SelectSeq(errors, LAMBDA r : r["kind"] \in {"pipe_from", "pipe_to"})
    IN [i \in 1..Len(e) |-> <<e[i]["kind"], e[i]["pipe"], e[i]["node"]>>]

\* C9: errors and suggestions have the same length, the i-th suggestion is
\* the one belonging to the i-th error, and the errors come in the order of
\* the checks: duplicate nodes, duplicate pipes, pipe references (in pipe
\* row order, from before to), demand references, isolated nodes.
C9_SuggestionsPairedInCheckOrder ==
    Validated =>
      /\ Len(suggestions) = Len(errors)
      /\ \A i \in 1..Len(errors) :
           i <= Len(suggestions) /\ suggestions[i] = SuggestionFor(errors[i])
      /\ \A i, j \in 1..Len(errors) :
           i < j => CheckRank(errors[i]) <= CheckRank(errors[j])
      /\ PipeErrorsReported = MissingEndpoints

C9_Witness ==
    /\ Validated
    /\ Len(errors) >= 4
    /\ \E i, j, k \in 1..Len(errors) :
         /\ errors[i]["kind"] = "pipe_from"
         /\ errors[j]["kind"] = "pipe_to"
         /\ errors[k]["kind"] = "isolated"
    /\ Len(suggestions) = Len(errors)

RegisteredBefore(calls, k, id) ==
    \E j \in 1..(k - 1) :
       calls[j]["op"] \in {"addNode", "addTank"} /\ calls[j]["id"] = id

\* C10: on tables that validate without error create_network registers
\* every node id exactly once, as a tank exactly when its row is a tank,
\* and every addPipe and addDemand call names only ids registered earlier.
C10_AssemblerSeesRegisteredNodes ==
    net # None =>
      LET calls == net[1]
      IN /\ \A i \in 1..Len(nodes) :
              /\ Cardinality({ k \in 1..Len(calls) :
                                 /\ calls[k]["op"] \in {"addNode", "addTank"}
                                 /\ calls[k]["id"] = nodes[i]["id"] }) = 1
              /\ \E k \in 1..Len(calls) :
                   /\ calls[k]["op"] =
                        (IF nodes[i]["type"] = "tank" THEN "addTank" ELSE "addNode")
                   /\ calls[k]["id"] = nodes[i]["id"]
         /\ \A k \in 1..Len(calls) :
              /\ calls[k]["op"] = "addPipe" =>
                   /\ RegisteredBefore(calls, k, calls[k]["from"])
                   /\ RegisteredBefore(calls, k, calls[k]["to"])
              /\ calls[k]["op"] = "addDemand" =>
                   RegisteredBefore(calls, k, calls[k]["node_id"])

C10_Witness ==
    /\ net # None
    /\ Len(nodes) = 2
    /\ \E k \in 1..Len(net[1]) : net[1][k]["op"] = "addTank"
    /\ \E k \in 1..Len(net[1]) : net[1][k]["op"] = "addPipe"
    /\ \E k \in 1..Len(net[1]) : net[1][k]["op"] = "addDemand"

====
